---- MODULE Spec2Model ----
(***************************************************************************)
(* News sentiment analysis backend: the enrichment fan-out of get_news,    *)
(* the comparative analysis of analyze_articles and the narration step of  *)
(* generate_tts / tts (src/backend/news/api.py, src/backend/news/utils.py).*)
(*                                                                         *)
(* Python strings are sequences of one-character strings, dicts are        *)
(* functions from keys to values, a missing key is a key outside DOMAIN.   *)
(* A call that may raise returns Ret(v) or Raise; try/except is the test   *)
(* on .exc that the handler performs.                                      *)
(***************************************************************************)
EXTENDS Integers, Sequences, FiniteSets, TLC

VARIABLES
    raw,        \* get_news: the article records built from the NewsAPI answer
    articles,   \* get_news: the same dict objects, as the tasks mutate them
    task,       \* get_news: position of each process_article task
    outcome,    \* get_news: what the external capabilities answered per task
    future,     \* get_news: the result each task left in its future
    completed,  \* get_news: the tasks in the order they completed
    mapped,     \* get_news: list(executor.map(...)) as built so far
    news_pc,    \* get_news: position of the request handler
    response,   \* get_news: the Response returned
    an_request, \* analyze: request.data['articles']
    an_response,\* analyze: the Response returned
    hash_seed,  \* the process: the salt of str hashes, drawn at interpreter start
    tts_pc,     \* tts: "request" while a call is pending, "done" after it
    tts_request,\* tts: company name, analysis payload, and who calls generate_tts
    gen,        \* tts: what the generate_tts call of this request did
    tts_response,\* tts: the Response returned
    tts_prev    \* tts: the latest earlier call that returned a filename

news_vars == <<raw, articles, task, outcome, future, completed, mapped, news_pc, response>>
an_vars == <<an_request, an_response>>
tts_vars == <<hash_seed, tts_pc, tts_request, gen, tts_response, tts_prev>>
vars == <<news_vars, an_vars, tts_vars>>

(***************************************************************************)
(* Bounds of the model.                                                    *)
(***************************************************************************)
MaxArticles == 2
Workers == 2
MaxAnalyzed == 3
MaxSeed == 1

(***************************************************************************)
(* Values.                                                                 *)
(***************************************************************************)
NoValue == "<absent>"
NoResponse == [code |-> 0]
NoCall == [called |-> FALSE]
None == [none |-> TRUE]
Raise == [exc |-> TRUE]
Ret(v) == [exc |-> FALSE, val |-> v]

Min(a, b) == IF a < b THEN a ELSE b
Max(a, b) == IF a > b THEN a ELSE b

(***************************************************************************)
(* Strings.                                                                *)
(***************************************************************************)
Whitespace == {" ", "\t"}

\* text[:n]
Prefix(text, n) == SubSeq(text, 1, Min(n, Len(text)))

NonBlank(text) == {i \in 1..Len(text) : text[i] \notin Whitespace}

MinOf(S) == CHOOSE x \in S : \A y \in S : x <= y
MaxOf(S) == CHOOSE x \in S : \A y \in S : x >= y

\* str.strip(): the leading and the trailing whitespace characters removed
Strip(text) ==
    LET n == Len(text)
        leading == Cardinality({i \in 1..n : \A j \in 1..i : text[j] \in Whitespace})
        trailing == Cardinality({i \in 1..n : \A j \in i..n : text[j] \in Whitespace})
    IN  IF leading = n THEN <<>> ELSE SubSeq(text, leading + 1, n - trailing)

\* str.split() on text[lo..hi]: the maximal runs of non-whitespace characters,
\* in order; the range is cut at a whitespace position near its middle
RECURSIVE SplitRange(_, _, _)
SplitRange(text, lo, hi) ==
    LET blanks == {i \in lo..hi : text[i] \in Whitespace}
        after == {i \in blanks : 2 * i >= lo + hi}
        cut == IF after # {} THEN MinOf(after) ELSE MaxOf(blanks)
    IN  IF lo > hi THEN <<>>
        ELSE IF blanks = {} THEN <<SubSeq(text, lo, hi)>>
        ELSE SplitRange(text, lo, cut - 1) \o SplitRange(text, cut + 1, hi)

Split(text) == SplitRange(text, 1, Len(text))

\* len(text.split()): one word starts at every non-whitespace character that
\* is the first character or follows a whitespace character
WordCount(text) ==
    Cardinality({i \in NonBlank(text) : i = 1 \/ text[i - 1] \in Whitespace})

Ellipsis == <<".", ".", ".">>

\* k words "w" separated by single blanks
Words(k) == [i \in 1..(2 * k - 1) |-> IF i % 2 = 1 THEN "w" ELSE " "]

(***************************************************************************)
(* utils.py: the enrichment capability adapter.                            *)
(***************************************************************************)
ClassifierOutcomes == {"POSITIVE", "NEGATIVE", "raise"}
SummarizerOutcomes == {"ok", "raise"}
SummaryOut == <<"s", "u", "m">>

sentiment_pipeline(text, cls) ==
    IF cls = "raise" THEN Raise ELSE Ret(<<[label |-> cls]>>)

summarizer(text, max_length, min_length, sm) ==
    IF sm = "raise" THEN Raise ELSE Ret(<<[summary_text |-> SummaryOut]>>)

analyze_sentiment_try(text, cls) ==
    IF Strip(text) = <<>>
    THEN Ret("Neutral")
    ELSE LET result == sentiment_pipeline(Prefix(text, 512), cls)
         IN  IF result.exc
             THEN Raise
             ELSE Ret(IF result.val[1].label = "POSITIVE" THEN "Positive" ELSE "Negative")

\* analyze_sentiment without its except clause
analyze_sentiment_unguarded(text, cls) == analyze_sentiment_try(text, cls)

analyze_sentiment(text, cls) ==
    LET r == analyze_sentiment_try(text, cls)
    IN  IF r.exc THEN Ret("Neutral") ELSE r

\* the (max_length, min_length) summarize passes for input_length words
max_length_of(input_length) == Min(150, input_length - 10)
min_length_of(input_length) == Max(30, input_length \div 4)

summarize_try(text, sm) ==
    LET len_words == WordCount(text)
    IN  IF len_words < 30
        THEN Ret(text)
        ELSE LET input_length == len_words
                 r == summarizer(text, max_length_of(input_length),
                                 min_length_of(input_length), sm)
             IN  IF r.exc THEN Raise ELSE Ret(r.val[1].summary_text)

summarize(text, sm) ==
    LET r == summarize_try(text, sm)
    IN  IF r.exc THEN Ret(Prefix(text, 150) \o Ellipsis) ELSE r

\* whether the capability is reached at all for this text, and with what
classifier_called(text) == Strip(text) # <<>>
summarizer_args(text) ==
    LET input_length == WordCount(text)
    IN  IF input_length >= 30
        THEN <<[max_length |-> max_length_of(input_length),
                min_length |-> min_length_of(input_length)]>>
        ELSE <<>>

(***************************************************************************)
(* api.py: get_news, from the article list on.                             *)
(***************************************************************************)
SampleTexts == {<<>>, <<" ", "\t">>, Words(2), Words(30), Words(76)}

RawArticle(i, text) ==
    [title |-> <<"T">>, summary |-> text, link |-> i, source |-> "src",
     sentiment |-> NoValue]

Tasks == DOMAIN articles

Running == {i \in Tasks : task[i] \in {"running", "labelled"}}

NewsIdle ==
    /\ raw = <<>>
    /\ articles = <<>>
    /\ task = <<>>
    /\ outcome = <<>>
    /\ future = <<>>
    /\ completed = <<>>
    /\ mapped = <<>>
    /\ news_pc = "idle"
    /\ response = NoValue

AnalyzeIdle ==
    /\ an_request = <<>>
    /\ an_response = NoResponse

TtsIdle ==
    /\ hash_seed = 0
    /\ tts_pc = "idle"
    /\ tts_request = NoCall
    /\ gen = NoCall
    /\ tts_response = NoResponse
    /\ tts_prev = NoCall

Init ==
    /\ AnalyzeIdle
    /\ TtsIdle
    /\ \E n \in 1..MaxArticles :
         \E texts \in [1..n -> SampleTexts] :
            raw = [i \in 1..n |-> RawArticle(i, texts[i])]
    /\ articles = raw
    /\ task = [i \in DOMAIN raw |-> "queued"]
    /\ outcome = [i \in DOMAIN raw |-> [cls |-> "none", sm |-> "none", args |-> <<>>]]
    /\ future = [i \in DOMAIN raw |-> NoValue]
    /\ completed = <<>>
    /\ mapped = <<>>
    /\ news_pc = "map"
    /\ response = NoValue

\* a worker thread takes the oldest queued work item
Start(i) ==
    /\ task[i] = "queued"
    /\ \A j \in Tasks : j < i => task[j] # "queued"
    /\ Cardinality(Running) < Workers
    /\ task' = [task EXCEPT ![i] = "running"]
    /\ UNCHANGED <<raw, articles, outcome, future, completed, mapped, news_pc, response>>
    /\ UNCHANGED <<an_vars, tts_vars>>

\* article['sentiment'] = analyze_sentiment(article['summary'])
process_article_sentiment(i, cls) ==
    /\ task[i] = "running"
    /\ LET text == articles[i].summary
           r == analyze_sentiment(text, cls)
       IN  IF r.exc
           THEN /\ task' = [task EXCEPT ![i] = "finished"]
                /\ future' = [future EXCEPT ![i] = "raised"]
                /\ completed' = Append(completed, i)
                /\ UNCHANGED articles
           ELSE /\ task' = [task EXCEPT ![i] = "labelled"]
                /\ articles' = [articles EXCEPT ![i].sentiment = r.val]
                /\ UNCHANGED <<future, completed>>
    /\ outcome' = [outcome EXCEPT ![i].cls =
                     IF classifier_called(articles[i].summary) THEN cls ELSE "none"]
    /\ UNCHANGED <<raw, mapped, news_pc, response>>
    /\ UNCHANGED <<an_vars, tts_vars>>

\* article['summary'] = summarize(article['summary']); return article
process_article_summary(i, sm) ==
    /\ task[i] = "labelled"
    /\ LET text == articles[i].summary
           r == summarize(text, sm)
       IN  IF r.exc
           THEN /\ future' = [future EXCEPT ![i] = "raised"]
                /\ UNCHANGED articles
           ELSE /\ future' = [future EXCEPT ![i] = "article"]
                /\ articles' = [articles EXCEPT ![i].summary = r.val]
    /\ task' = [task EXCEPT ![i] = "finished"]
    /\ completed' = Append(completed, i)
    /\ LET args == summarizer_args(articles[i].summary)
       IN  outcome' = [outcome EXCEPT ![i].sm = IF args # <<>> THEN sm ELSE "none",
                                      ![i].args = args]
    /\ UNCHANGED <<raw, mapped, news_pc, response>>
    /\ UNCHANGED <<an_vars, tts_vars>>

\* results taken as the tasks complete
map_next_as_completed == {i \in Tasks : \A k \in DOMAIN mapped : mapped[k] # i}
\* the next future executor.map's iterator waits on: input order
map_next == {Len(mapped) + 1} \cap Tasks

\* list(executor.map(process_article, articles)) takes one more result
Collect ==
    /\ news_pc = "map"
    /\ \E i \in map_next :
         /\ task[i] = "finished"
         /\ IF future[i] = "raised"
            THEN /\ news_pc' = "raising"
                 /\ UNCHANGED mapped
            ELSE /\ mapped' = Append(mapped, i)
                 /\ UNCHANGED news_pc
    /\ UNCHANGED <<raw, articles, task, outcome, future, completed, response>>
    /\ UNCHANGED <<an_vars, tts_vars>>

\* the with-block ends (all tasks joined) and the handler answers
Respond ==
    /\ news_pc \in {"map", "raising"}
    /\ \A i \in Tasks : task[i] = "finished"
    /\ news_pc = "map" => Len(mapped) = Len(articles)
    /\ response' =
         IF news_pc = "map"
         THEN [code |-> 200, status |-> "success",
               articles |-> [k \in DOMAIN mapped |-> articles[mapped[k]]],
               count |-> Len(mapped)]
         ELSE [code |-> 500]
    /\ news_pc' = "responded"
    /\ UNCHANGED <<raw, articles, task, outcome, future, completed, mapped>>
    /\ UNCHANGED <<an_vars, tts_vars>>

Next ==
    \/ \E i \in Tasks : Start(i)
    \/ \E i \in Tasks : \E cls \in ClassifierOutcomes : process_article_sentiment(i, cls)
    \/ \E i \in Tasks : \E sm \in SummarizerOutcomes : process_article_summary(i, sm)
    \/ Collect
    \/ Respond

Spec == Init /\ [][Next]_vars

(***************************************************************************)
(* Properties of get_news.                                                 *)
(***************************************************************************)
\* the enrichment of article a under the capability answers o
Enriched(a, o) ==
    [a EXCEPT !.sentiment = analyze_sentiment(a.summary, o.cls).val,
              !.summary = summarize(a.summary, o.sm).val]

\* C1: whatever the completion order of the process_article tasks, the list
\* get_news returns is as long as the input and its i-th element is the
\* enrichment of the i-th input article; a task changes nothing but the
\* sentiment and the summary of its own article.
C1_OrderPreserved ==
    /\ \A i \in Tasks :
          /\ articles[i].title = raw[i].title
          /\ articles[i].link = raw[i].link
          /\ articles[i].source = raw[i].source
          /\ task[i] \in {"queued", "running"} => articles[i] = raw[i]
          /\ task[i] = "labelled" => articles[i].summary = raw[i].summary
    /\ news_pc = "responded" =>
          /\ response.code = 200
          /\ response.count = Len(raw)
          /\ Len(response.articles) = Len(raw)
          /\ \A i \in DOMAIN raw : response.articles[i] = Enriched(raw[i], outcome[i])

\* the second task completed first and the answer is still in input order
C1_Witness ==
    /\ news_pc = "responded"
    /\ completed = <<2, 1>>
    /\ response.articles[1].link = 1
    /\ response.articles[2].link = 2
    /\ response.articles[1].sentiment # response.articles[2].sentiment

\* C7: analyze_sentiment and summarize never raise: the label is Neutral for
\* blank text or a failed classifier and Positive or Negative otherwise, a
\* failed summarizer yields the first 150 characters plus "...", and so no
\* task fails and the request is answered with every article enriched.
C7_FailuresAbsorbed ==
    /\ \A i \in Tasks :
          /\ future[i] # "raised"
          /\ task[i] \in {"labelled", "finished"} =>
                IF NonBlank(raw[i].summary) = {} \/ outcome[i].cls = "raise"
                THEN articles[i].sentiment = "Neutral"
                ELSE articles[i].sentiment \in {"Positive", "Negative"}
          /\ (task[i] = "finished" /\ outcome[i].sm = "raise") =>
                articles[i].summary = Prefix(raw[i].summary, 150) \o Ellipsis
    /\ news_pc # "raising"
    /\ news_pc = "responded" =>
          /\ response.code = 200
          /\ \A i \in Tasks : future[i] = "article"

\* both capabilities failed on one article, its sibling was still enriched
C7_Witness ==
    /\ news_pc = "responded"
    /\ \E i, j \in Tasks :
          /\ i # j
          /\ outcome[i].cls = "raise" /\ outcome[i].sm = "raise"
          /\ Len(raw[i].summary) > 150
          /\ Len(response.articles[i].summary) = 153
          /\ response.articles[i].sentiment = "Neutral"
          /\ outcome[j].cls = "POSITIVE" /\ outcome[j].sm = "ok"
          /\ response.articles[j].sentiment = "Positive"
          /\ response.articles[j].summary = SummaryOut

\* C10: whenever summarize calls the summarizer, the min_length it passes is
\* at most the max_length it passes.
C10_BoundsConsistent ==
    \A i \in Tasks :
        \A a \in {outcome[i].args[k] : k \in DOMAIN outcome[i].args} :
            a.min_length <= a.max_length

(***************************************************************************)
(* utils.py: analyze_articles.                                             *)
(***************************************************************************)
\* dict.get(key, default)
Get(d, key, default) == IF key \in DOMAIN d THEN d[key] ELSE default

LowerChar(c) ==
    CASE c = "A" -> "a" [] c = "B" -> "b" [] c = "C" -> "c"
      [] c = "D" -> "d" [] c = "E" -> "e" [] c = "X" -> "x"
      [] OTHER -> c

UpperChar(c) ==
    CASE c = "a" -> "A" [] c = "b" -> "B" [] c = "c" -> "C"
      [] c = "d" -> "D" [] c = "e" -> "E" [] c = "x" -> "X"
      [] OTHER -> c

IsLetter(c) == LowerChar(c) # c \/ UpperChar(c) # c

\* str.lower()
Lower(word) == [i \in 1..Len(word) |-> LowerChar(word[i])]

\* str.title(): a letter is upper-cased when no letter precedes it and
\* lower-cased when one does
Title(word) ==
    [i \in 1..Len(word) |->
        IF i > 1 /\ IsLetter(word[i - 1]) THEN LowerChar(word[i]) ELSE UpperChar(word[i])]

\* sep.join(parts)
RECURSIVE Join(_, _)
Join(parts, sep) ==
    IF parts = <<>> THEN <<>>
    ELSE IF Len(parts) = 1 THEN parts[1]
    ELSE parts[1] \o sep \o Join(Tail(parts), sep)

CommaBlank == <<",", " ">>

SentimentKeys == {"Positive", "Negative", "Neutral"}

\* a tally without the else branch
tally_sentiment_dropping(counts, sentiment) ==
    IF sentiment \in DOMAIN counts
    THEN [counts EXCEPT ![sentiment] = @ + 1]
    ELSE counts

\* lines 68-71: one more article under its label, or under Neutral
tally_sentiment(counts, sentiment) ==
    IF sentiment \in DOMAIN counts
    THEN [counts EXCEPT ![sentiment] = @ + 1]
    ELSE [counts EXCEPT !["Neutral"] = @ + 1]

\* line 80: the lower-cased first three tokens of a title
title_topics(title) ==
    LET words == Prefix(Split(title), 3)
        kept == SelectSeq(words, LAMBDA word : Strip(word) # <<>>)
    IN  [k \in 1..Len(kept) |-> Lower(Strip(kept[k]))]

\* lines 66-81: the loop over the articles, after the first k of them
RECURSIVE analyze_loop(_, _)
analyze_loop(arts, k) ==
    IF k = 0
    THEN [sentiment_counts |-> [key \in SentimentKeys |-> 0],
          all_topics |-> <<>>, pos_titles |-> <<>>, neg_titles |-> <<>>]
    ELSE LET st == analyze_loop(arts, k - 1)
             article == arts[k]
             sentiment == Get(article, "sentiment", "Neutral")
             title == Get(article, "title", <<>>)
         IN  [sentiment_counts |-> tally_sentiment(st.sentiment_counts, sentiment),
              all_topics |-> st.all_topics \o title_topics(title),
              pos_titles |-> IF sentiment = "Positive"
                             THEN Append(st.pos_titles, title) ELSE st.pos_titles,
              neg_titles |-> IF sentiment = "Negative"
                             THEN Append(st.neg_titles, title) ELSE st.neg_titles]

\* lines 84-86: topic_counter, a dict in insertion order, after k topics
RECURSIVE topic_counter(_, _)
topic_counter(all_topics, k) ==
    IF k = 0 THEN <<>>
    ELSE LET counter == topic_counter(all_topics, k - 1)
             topic == all_topics[k]
             at == {i \in DOMAIN counter : counter[i][1] = topic}
         IN  IF at = {}
             THEN Append(counter, <<topic, 1>>)
             ELSE [i \in DOMAIN counter |->
                     IF i \in at THEN <<topic, counter[i][2] + 1>> ELSE counter[i]]

\* sorted(items, key=count): ascending, equal counts in their given order
RECURSIVE sorted_ascending(_)
sorted_ascending(items) ==
    IF items = <<>> THEN <<>>
    ELSE LET rest == sorted_ascending(SubSeq(items, 1, Len(items) - 1))
             item == items[Len(items)]
             p == Cardinality({i \in DOMAIN rest : rest[i][2] <= item[2]})
         IN  SubSeq(rest, 1, p) \o <<item>> \o SubSeq(rest, p + 1, Len(rest))

\* line 87: sorted(items, key=count, reverse=True): descending, equal counts
\* in their given order (the sort is stable, reverse keeps it so)
RECURSIVE sorted_descending(_)
sorted_descending(items) ==
    IF items = <<>> THEN <<>>
    ELSE LET rest == sorted_descending(SubSeq(items, 1, Len(items) - 1))
             item == items[Len(items)]
             p == Cardinality({i \in DOMAIN rest : rest[i][2] >= item[2]})
         IN  SubSeq(rest, 1, p) \o <<item>> \o SubSeq(rest, p + 1, Len(rest))

\* lines 87-88
common_topics_of(all_topics) ==
    LET top == Prefix(sorted_descending(topic_counter(all_topics, Len(all_topics))), 3)
    IN  [k \in 1..Len(top) |-> Title(top[k][1])]

\* lines 91-99
coverage_differences_of(st) ==
    <<[fmt |-> "{} articles highlight positive developments",
       count |-> st.sentiment_counts["Positive"]],
      [fmt |-> "{} articles discuss challenges/risks",
       count |-> st.sentiment_counts["Negative"]]>>
    \o (IF st.pos_titles # <<>>
        THEN <<[fmt |-> "Positive articles include: {}",
                joined |-> Join(Prefix(st.pos_titles, 2), CommaBlank)]>>
        ELSE <<>>)
    \o (IF st.neg_titles # <<>>
        THEN <<[fmt |-> "Negative articles include: {}",
                joined |-> Join(Prefix(st.neg_titles, 2), CommaBlank)]>>
        ELSE <<>>)

MostlyPositive == "News coverage is mostly positive."
MostlyNegative == "News coverage is mostly negative."
Balanced == "Overall news coverage appears balanced."

\* a verdict that takes a tie for a positive majority
overall_sentiment_lenient(counts) ==
    IF counts["Positive"] >= counts["Negative"] THEN MostlyPositive
    ELSE IF counts["Negative"] > counts["Positive"] THEN MostlyNegative
    ELSE Balanced

\* lines 102-107
overall_sentiment(counts) ==
    IF counts["Positive"] > counts["Negative"] THEN MostlyPositive
    ELSE IF counts["Negative"] > counts["Positive"] THEN MostlyNegative
    ELSE Balanced

\* lines 55-114; the except branch (lines 115-117) is not reached by
\* articles that are dicts with string titles and hashable labels
analyze_articles(arts) ==
    IF arts = <<>>
    THEN [error |-> "No articles to analyze"]
    ELSE LET st == analyze_loop(arts, Len(arts))
         IN  [sentiment_distribution |-> st.sentiment_counts,
              common_topics |-> common_topics_of(st.all_topics),
              coverage_differences |-> coverage_differences_of(st),
              final_sentiment_analysis |-> overall_sentiment(st.sentiment_counts)]

(***************************************************************************)
(* api.py: analyze.                                                        *)
(***************************************************************************)
SampleTitles ==
    {<<"d", " ", "b", " ", "b">>,
     <<"B", " ", "a", " ", "\t", "c", "-", "X", " ", "e">>}

SampleLabels == {"Positive", "Negative", "Neutral", "Mixed"}

\* enriched articles as a client posts them: any title, any label or none
SampleEnriched ==
    {[title |-> t, sentiment |-> l] : t \in SampleTitles, l \in SampleLabels}
    \cup {[title |-> t] : t \in SampleTitles}
    \cup {[sentiment |-> l] : l \in SampleLabels}
    \cup {[link |-> 0]}

InitAnalyze ==
    /\ NewsIdle
    /\ TtsIdle
    /\ \E n \in 0..MaxAnalyzed : an_request \in [1..n -> SampleEnriched]
    /\ an_response = NoResponse

\* lines 77-89
analyze ==
    /\ an_response = NoResponse
    /\ an_response' =
         IF an_request = <<>>
         THEN [code |-> 400, error |-> "No articles provided"]
         ELSE [code |-> 200, articles |-> an_request,
               comparative |-> analyze_articles(an_request)]
    /\ UNCHANGED <<an_request, news_vars, tts_vars>>

NextAnalyze == analyze

SpecAnalyze == InitAnalyze /\ [][NextAnalyze]_vars

(***************************************************************************)
(* Properties of analyze_articles.                                         *)
(***************************************************************************)
Analyzed == an_response.code = 200
Report == an_response.comparative

LabelOf(article) == IF "sentiment" \in DOMAIN article THEN article["sentiment"] ELSE NoValue
Labelled(label) == Cardinality({i \in DOMAIN an_request : LabelOf(an_request[i]) = label})
Unrecognized ==
    Cardinality({i \in DOMAIN an_request : LabelOf(an_request[i]) \notin SentimentKeys})

\* C2: for a non-empty article list the distribution has exactly the keys
\* Positive, Negative and Neutral, natural-number values that sum to the
\* number of articles, and counts an article with no label or with an
\* unknown label under Neutral.
C2_DistributionSums ==
    Analyzed =>
        LET dist == Report.sentiment_distribution
        IN  /\ DOMAIN dist = {"Positive", "Negative", "Neutral"}
            /\ \A key \in DOMAIN dist : dist[key] \in Nat
            /\ dist["Positive"] + dist["Negative"] + dist["Neutral"] = Len(an_request)
            /\ dist["Positive"] = Labelled("Positive")
            /\ dist["Negative"] = Labelled("Negative")
            /\ dist["Neutral"] = Labelled("Neutral") + Unrecognized

\* an unknown label and a missing label were both counted as Neutral
C2_Witness ==
    /\ Analyzed
    /\ Labelled("Mixed") = 1
    /\ Labelled(NoValue) = 1
    /\ Labelled("Positive") = 1
    /\ Report.sentiment_distribution["Neutral"] = 2

\* C3: the verdict is the positive sentence exactly when Positive > Negative,
\* the negative sentence exactly when Negative > Positive, and the balanced
\* sentence otherwise; the Neutral count plays no part.
C3_Verdict ==
    Analyzed =>
        LET verdict == Report.final_sentiment_analysis
            pos == Labelled("Positive")
            neg == Labelled("Negative")
        IN  /\ verdict = "News coverage is mostly positive." <=> pos > neg
            /\ verdict = "News coverage is mostly negative." <=> neg > pos
            /\ verdict = "Overall news coverage appears balanced." <=> pos = neg

\* the balanced verdict, on one positive, one negative and one other article
C3_Witness ==
    /\ Analyzed
    /\ Labelled("Positive") = 1
    /\ Labelled("Negative") = 1
    /\ Len(an_request) = 3
    /\ Report.final_sentiment_analysis = "Overall news coverage appears balanced."

\* the topics of the request, in the order of the articles and of the tokens
RECURSIVE RequestTopics(_)
RequestTopics(k) ==
    IF k = 0 THEN <<>>
    ELSE RequestTopics(k - 1) \o
         (IF "title" \in DOMAIN an_request[k]
          THEN LET tokens == Split(an_request[k]["title"])
               IN  [j \in 1..Min(3, Len(tokens)) |-> Lower(tokens[j])]
          ELSE <<>>)

Occurrences(all, topic) == Cardinality({i \in DOMAIN all : all[i] = topic})
FirstSeen(all, topic) == MinOf({i \in DOMAIN all : all[i] = topic})
Precedes(all, a, b) ==
    \/ Occurrences(all, a) > Occurrences(all, b)
    \/ Occurrences(all, a) = Occurrences(all, b) /\ FirstSeen(all, a) < FirstSeen(all, b)
Rank(all, topic) ==
    1 + Cardinality({other \in {all[i] : i \in DOMAIN all} : Precedes(all, other, topic)})

\* C4: common_topics has at most 3 entries; they are the first 3 topics (all
\* of them when there are fewer) of the order that puts a more frequent topic
\* before a less frequent one and, at equal frequency, the topic seen first
\* before the other, each a lower-cased token among the first 3 of a title,
\* written title-cased.
C4_CommonTopics ==
    Analyzed =>
        LET all == RequestTopics(Len(an_request))
            distinct == {all[i] : i \in DOMAIN all}
            topics == Report.common_topics
        IN  /\ Len(topics) <= 3
            /\ Len(topics) = Min(3, Cardinality(distinct))
            /\ \A k \in DOMAIN topics :
                  \E topic \in distinct :
                     /\ Rank(all, topic) = k
                     /\ topics[k] = Title(topic)

\* four topics, the most frequent seen after a rarer one, a tie, one cut off
C4_Witness ==
    /\ Analyzed
    /\ Len(an_request) = 2
    /\ Get(an_request[1], "title", <<>>) = <<"d", " ", "b", " ", "b">>
    /\ Get(an_request[2], "title", <<>>) = <<"B", " ", "a", " ", "\t", "c", "-", "X", " ", "e">>
    /\ Report.common_topics = <<<<"B">>, <<"D">>, <<"A">>>>

(***************************************************************************)
(* utils.py: generate_tts.  A script is the sequence of the pieces the     *)
(* f-strings put together: literals, texts, numbers and insight items.     *)
(***************************************************************************)
L(s) == [lit |-> s]
T(chars) == [text |-> chars]
N(n) == [num |-> n]
I(x) == [item |-> x]

\* JSON values: null, an object, a string, an array
IsDict(v) == "dict" \in DOMAIN v
Truthy(v) ==
    CASE "null" \in DOMAIN v -> FALSE
      [] "dict" \in DOMAIN v -> DOMAIN v.dict # {}
      [] "str" \in DOMAIN v -> v.str # <<>>
      [] "list" \in DOMAIN v -> v.list # <<>>

\* a check that forgets the emptiness test
valid_analysis_any_dict(analysis_data) == IsDict(analysis_data)

\* line 134, negated
valid_analysis(analysis_data) == Truthy(analysis_data) /\ IsDict(analysis_data)

\* str.replace(' ', '_')
ReplaceBlank(chars) == [i \in 1..Len(chars) |-> IF chars[i] = " " THEN "_" ELSE chars[i]]

\* hash(str): salted per process, so a value of the salt and of the string;
\* two processes may draw the same salt (restart may keep hash_seed)
str_hash(seed, text) == [salt |-> seed, of |-> text]

\* enumerate(coverage_diff) with the default start
insights_from_zero(coverage_diff) ==
    [i \in 1..Len(coverage_diff) |-> <<N(i - 1), L(". "), I(coverage_diff[i])>>]

\* lines 158-160: enumerate(coverage_diff, start=1)
insights_of(coverage_diff) ==
    [i \in 1..Len(coverage_diff) |-> <<N(i), L(". "), I(coverage_diff[i])>>]

\* lines 141-162
summary_text_of(company_name, d) ==
    LET sentiment_summary ==
            Get(d, "final_sentiment_analysis", "No sentiment analysis available")
        sentiment_dist == Get(d, "sentiment_distribution", <<>>)
        common_topics == Get(d, "common_topics", <<>>)
        coverage_diff == Get(d, "coverage_differences", <<>>)
    IN  <<L("Company: "), T(company_name), L(". "),
          L("Overall Sentiment: "), [str |-> sentiment_summary], L(". "),
          L("Positive articles: "), N(Get(sentiment_dist, "Positive", 0)), L(", "),
          L("Negative articles: "), N(Get(sentiment_dist, "Negative", 0)), L(", "),
          L("Neutral articles: "), N(Get(sentiment_dist, "Neutral", 0)), L(". ")>>
        \o (IF common_topics # <<>>
            THEN <<L("Common topics include "), T(Join(common_topics, CommaBlank)), L(". ")>>
            ELSE <<>>)
        \o (IF coverage_diff # <<>>
            THEN <<L("Key insights are: ")>>
                 \o Join(insights_of(coverage_diff), <<L(" ")>>)
                 \o <<L(". ")>>
            ELSE <<>>)

\* line 171
filename_of(company_name, seed, summary_text) ==
    <<T(ReplaceBlank(company_name)), L("_"),
      [hash |-> str_hash(seed, summary_text)], L(".mp3")>>

TranslateOutcomes == {"ok", "raise"}
SynthesisOutcomes == {"ok", "raise"}

\* lines 134-184 inside the try: what was built, which capabilities were
\* called in which order and how they answered, and the value returned or
\* the exception raised
generate_tts_try(company_name, analysis_data, seed, tr, sy, ex) ==
    IF ~valid_analysis(analysis_data)
    THEN [exc |-> FALSE, val |-> None, script |-> <<>>, calls |-> <<>>,
          translate |-> "none", synthesis |-> "none", exists |-> "none"]
    ELSE LET summary_text == summary_text_of(company_name, analysis_data.dict)
             filename == filename_of(company_name, seed, summary_text)
         IN  IF tr = "raise"
             THEN [exc |-> TRUE, script |-> summary_text,
                   calls |-> <<"makedirs", "translate">>,
                   translate |-> "raise", synthesis |-> "none", exists |-> "none"]
             ELSE IF sy = "raise"
             THEN [exc |-> TRUE, script |-> summary_text,
                   calls |-> <<"makedirs", "translate", "gTTS.save">>,
                   translate |-> "ok", synthesis |-> "raise", exists |-> "none"]
             ELSE [exc |-> FALSE, val |-> IF ex THEN [filename |-> filename] ELSE None,
                   script |-> summary_text,
                   calls |-> <<"makedirs", "translate", "gTTS.save", "os.path.exists">>,
                   translate |-> "ok", synthesis |-> "ok",
                   exists |-> IF ex THEN "yes" ELSE "no"]

\* a variant that returns the name without looking for the file
generate_tts_unverified(company_name, analysis_data, seed, tr, sy, ex) ==
    LET r == generate_tts_try(company_name, analysis_data, seed, tr, sy, TRUE)
    IN  [called |-> TRUE, company |-> company_name, analysis |-> analysis_data,
         script |-> r.script,
         calls |-> SelectSeq(r.calls, LAMBDA c : c # "os.path.exists"),
         translate |-> r.translate, synthesis |-> r.synthesis,
         exists |-> IF r.exists = "none" THEN "none" ELSE IF ex THEN "yes" ELSE "no",
         result |-> IF r.exc THEN None ELSE r.val]

\* lines 133-187, with the except branch
generate_tts(company_name, analysis_data, seed, tr, sy, ex) ==
    LET r == generate_tts_try(company_name, analysis_data, seed, tr, sy, ex)
    IN  [called |-> TRUE, company |-> company_name, analysis |-> analysis_data,
         script |-> r.script, calls |-> r.calls,
         translate |-> r.translate, synthesis |-> r.synthesis, exists |-> r.exists,
         result |-> IF r.exc THEN None ELSE r.val]

(***************************************************************************)
(* api.py: tts, and direct calls of generate_tts.                          *)
(***************************************************************************)
InsightA == [fmt |-> "2 articles highlight positive developments"]
InsightB == [fmt |-> "1 articles discuss challenges/risks"]
InsightC == [fmt |-> "Positive articles include: Acme"]

SampleAnalyses ==
    {[null |-> TRUE],
     [dict |-> <<>>],
     [str |-> <<"x">>],
     [list |-> <<1>>],
     [dict |-> [final_sentiment_analysis |-> MostlyPositive,
                sentiment_distribution |-> [Positive |-> 2, Negative |-> 1, Neutral |-> 0],
                common_topics |-> <<<<"A", "c", "m", "e">>, <<"E", "a", "r", "n">>>>,
                coverage_differences |-> <<InsightA, InsightB>>]],
     [dict |-> [sentiment_distribution |-> [Negative |-> 3]]],
     [dict |-> [final_sentiment_analysis |-> Balanced,
                sentiment_distribution |-> <<>>,
                common_topics |-> <<<<"A", "c", "m", "e">>>>,
                coverage_differences |-> <<>>]],
     [dict |-> [coverage_differences |-> <<InsightC, InsightA, InsightB>>]],
     [dict |-> analyze_articles(<<[title |-> <<"d", " ", "b">>, sentiment |-> "Negative"]>>)]}

SampleCompanies == {<<>>, <<" ">>, <<"A", " ", "B">>, <<" ", "Z">>}

SampleRequests ==
    [company : SampleCompanies, analysis : SampleAnalyses, via : {"endpoint", "direct"}]

Seeds == 0..MaxSeed

InitTts ==
    /\ NewsIdle
    /\ AnalyzeIdle
    /\ hash_seed \in Seeds
    /\ tts_pc = "request"
    /\ tts_request \in SampleRequests
    /\ gen = NoCall
    /\ tts_response = NoResponse
    /\ tts_prev = NoCall

MEDIA_URL == <<"/", "m", "e", "d", "i", "a", "/">>

\* api.py lines 102-117
tts(tr, sy, ex) ==
    /\ tts_pc = "request"
    /\ tts_request.via = "endpoint"
    /\ LET company_name == Strip(tts_request.company)
           analysis_data == tts_request.analysis
           r == generate_tts(company_name, analysis_data, hash_seed, tr, sy, ex)
       IN  IF company_name = <<>>
           THEN /\ tts_response' = [code |-> 400, error |-> "company_name is required"]
                /\ gen' = NoCall
           ELSE IF ~Truthy(analysis_data)
           THEN /\ tts_response' = [code |-> 400, error |-> "Analysis data is required"]
                /\ gen' = NoCall
           ELSE /\ gen' = r
                /\ tts_response' =
                     IF r.result = None
                     THEN [code |-> 500, error |-> "TTS generation failed"]
                     ELSE [code |-> 200,
                           audio_url |-> <<T(MEDIA_URL)>> \o r.result.filename]
    /\ tts_pc' = "done"
    /\ UNCHANGED <<hash_seed, tts_request, tts_prev, news_vars, an_vars>>

\* utils.generate_tts called by another caller than the endpoint
generate_tts_call(tr, sy, ex) ==
    /\ tts_pc = "request"
    /\ tts_request.via = "direct"
    /\ gen' = generate_tts(tts_request.company, tts_request.analysis, hash_seed, tr, sy, ex)
    /\ tts_pc' = "done"
    /\ UNCHANGED <<hash_seed, tts_request, tts_response, tts_prev, news_vars, an_vars>>

\* the next request arrives; the last filename handed out is remembered
tts_next ==
    /\ tts_pc = "done"
    /\ tts_prev' = IF gen.called /\ gen.result # None
                   THEN [called |-> TRUE, company |-> gen.company,
                         analysis |-> gen.analysis, result |-> gen.result]
                   ELSE tts_prev
    /\ tts_request' \in SampleRequests
    /\ gen' = NoCall
    /\ tts_response' = NoResponse
    /\ tts_pc' = "request"
    /\ UNCHANGED <<hash_seed, news_vars, an_vars>>

\* the server process is restarted: the interpreter draws a new hash salt
restart ==
    /\ tts_pc = "request"
    /\ hash_seed' \in Seeds
    /\ UNCHANGED <<tts_pc, tts_request, gen, tts_response, tts_prev, news_vars, an_vars>>

NextTts ==
    \/ \E tr \in TranslateOutcomes, sy \in SynthesisOutcomes, ex \in BOOLEAN : tts(tr, sy, ex)
    \/ \E tr \in TranslateOutcomes, sy \in SynthesisOutcomes, ex \in BOOLEAN :
          generate_tts_call(tr, sy, ex)
    \/ tts_next
    \/ restart

SpecTts == InitTts /\ [][NextTts]_vars

(***************************************************************************)
(* Properties of generate_tts and tts.                                     *)
(***************************************************************************)
Returned == gen.called /\ gen.result # None

\* C5: two calls of generate_tts with the same company name and the same
\* analysis data yield the same filename, also across process restarts.
C5_StableFilename ==
    (/\ tts_prev.called
     /\ Returned
     /\ tts_prev.company = gen.company
     /\ tts_prev.analysis = gen.analysis)
    => gen.result = tts_prev.result

\* C6: a filename is returned only after translate, then gTTS.save, then
\* os.path.exists all succeeded; a failed translation, a failed synthesis or
\* an absent file gives None, and the endpoint then answers with an error
\* and without audio_url.
C6_FilenameOnlyOnSuccess ==
    gen.called =>
        /\ Returned =>
              /\ gen.translate = "ok" /\ gen.synthesis = "ok" /\ gen.exists = "yes"
              /\ gen.calls = <<"makedirs", "translate", "gTTS.save", "os.path.exists">>
        /\ (gen.translate = "raise" \/ gen.synthesis = "raise" \/ gen.exists # "yes")
              => gen.result = None
        /\ (tts_request.via = "endpoint" /\ tts_pc = "done") =>
              IF gen.result = None
              THEN /\ tts_response.code = 500
                   /\ "error" \in DOMAIN tts_response
                   /\ "audio_url" \notin DOMAIN tts_response
              ELSE /\ tts_response.code = 200
                   /\ tts_response.audio_url = <<T(MEDIA_URL)>> \o gen.result.filename

\* translation and synthesis succeeded, the file was not there: HTTP 500
C6_Witness ==
    /\ tts_pc = "done"
    /\ tts_request.via = "endpoint"
    /\ gen.called
    /\ gen.translate = "ok" /\ gen.synthesis = "ok" /\ gen.exists = "no"
    /\ gen.result = None
    /\ tts_response.code = 500

\* null, an empty object, or anything that is not an object
InvalidPayload(v) ==
    \/ "null" \in DOMAIN v
    \/ "str" \in DOMAIN v
    \/ "list" \in DOMAIN v
    \/ "dict" \in DOMAIN v /\ v.dict = <<>>

\* C8: for a null, empty or non-object payload generate_tts returns None
\* with no script built and no capability or file system call made; the
\* endpoint never answers such a request with an audio_url.
C8_InvalidPayloadRejected ==
    /\ (gen.called /\ InvalidPayload(gen.analysis)) =>
          /\ gen.result = None
          /\ gen.script = <<>>
          /\ gen.calls = <<>>
    /\ (tts_pc = "done" /\ tts_request.via = "endpoint"
            /\ InvalidPayload(tts_request.analysis)) =>
          /\ tts_response.code \in {400, 500}
          /\ "audio_url" \notin DOMAIN tts_response

\* generate_tts was called with an empty object
C8_Witness ==
    /\ gen.called
    /\ gen.analysis = [dict |-> <<>>]
    /\ gen.result = None
    /\ gen.calls = <<>>

Field(key, default) ==
    IF key \in DOMAIN gen.analysis.dict THEN gen.analysis.dict[key] ELSE default
Count(key) ==
    IF key \in DOMAIN Field("sentiment_distribution", <<>>)
    THEN Field("sentiment_distribution", <<>>)[key]
    ELSE 0
HasTopics == Field("common_topics", <<>>) # <<>>
Insights == Field("coverage_differences", <<>>)
InsightsAt == IF HasTopics THEN 19 ELSE 16
Positions(piece) == {k \in DOMAIN gen.script : gen.script[k] = piece}

\* C9: the script is the company and overall-sentiment line, then the
\* counts line with the counts of the distribution (0 for a missing key),
\* then the topics line iff common_topics is non-empty, then the insights
\* line iff coverage_differences is non-empty, whose items appear once each,
\* in input order, labelled 1 to N.
C9_ScriptSections ==
    (gen.called /\ ~InvalidPayload(gen.analysis)) =>
        LET script == gen.script
            n == Len(Insights)
        IN  /\ SubSeq(script, 1, 6) =
                  <<L("Company: "), T(gen.company), L(". "), L("Overall Sentiment: "),
                    [str |-> Field("final_sentiment_analysis",
                                   "No sentiment analysis available")],
                    L(". ")>>
            /\ SubSeq(script, 7, 15) =
                  <<L("Positive articles: "), N(Count("Positive")), L(", "),
                    L("Negative articles: "), N(Count("Negative")), L(", "),
                    L("Neutral articles: "), N(Count("Neutral")), L(". ")>>
            /\ Positions(L("Common topics include ")) = IF HasTopics THEN {16} ELSE {}
            /\ HasTopics =>
                  /\ script[17] = T(Join(Field("common_topics", <<>>), CommaBlank))
                  /\ script[18] = L(". ")
            /\ Positions(L("Key insights are: ")) = IF n > 0 THEN {InsightsAt} ELSE {}
            /\ \A i \in 1..n :
                  /\ script[InsightsAt + 4 * i - 3] = N(i)
                  /\ script[InsightsAt + 4 * i - 2] = L(". ")
                  /\ script[InsightsAt + 4 * i - 1] = I(Insights[i])
                  /\ script[InsightsAt + 4 * i] = IF i < n THEN L(" ") ELSE L(". ")
            /\ Len(script) = InsightsAt - 1 + (IF n > 0 THEN 4 * n + 1 ELSE 0)

\* the example of the counts 2, 1, 0 with two topics and two insights
C9_Witness ==
    /\ gen.called
    /\ gen.company = <<"A", " ", "B">>
    /\ ~InvalidPayload(gen.analysis)
    /\ Count("Positive") = 2 /\ Count("Negative") = 1 /\ Count("Neutral") = 0
    /\ Len(Field("common_topics", <<>>)) = 2
    /\ Len(Insights) = 2
    /\ Len(gen.script) = 27
    /\ gen.script[24] = N(2)

====
